---- MODULE Spec2Model ----
(***************************************************************************)
(* Exec approval coordination of the gateway: the ExecApprovalManager      *)
(* (src/gateway/exec-approval-manager.ts) and the exec.approval.* request  *)
(* handlers that drive it.                                                 *)
(*                                                                         *)
(* The runtime is single-threaded JavaScript: a handler or a timer         *)
(* callback runs to completion (one action here), a continuation that      *)
(* follows an `await` runs as a microtask, before the next handler or      *)
(* timer callback.                                                         *)
(***************************************************************************)
EXTENDS Integers, Sequences, FiniteSets, TLC

\* ------------------------------------------------------------------ bounds
MaxTime == 2          \* the clock runs over 0..MaxTime
MaxObjects == 3       \* records built plus registrations made in the manager
MaxCalls == 2         \* exec.approval.request handler calls

\* ------------------------------------------------------------ value domains
\* A string is a sequence of one-character strings, so that trim is computed.
Nil == "<null>"                    \* null / undefined of a string-valued slot
NullId == <<Nil>>                  \* null / undefined passed for `id`
Whitespace == {" "}
Digit == <<"1", "2", "3", "4", "5", "6", "7", "8", "9">>
\* the id arguments callers pass: absent, blank, plain and padded ids
IdInputs == {NullId, <<" ">>, <<"B">>, <<" ", "B", " ">>}
Timeouts == {1}
Decisions == {"allow-once", "deny"}
\* the (decision, resolvedBy) pairs resolvers pass
ResolveInputs == {<<"allow-once", "CLI">>, <<"deny", Nil>>}
\* the optional string fields of ExecApprovalRequestPayload
OptionalFields == {"agentId", "cwd", "host", "security", "ask", "resolvedPath", "sessionKey"}
\* the request payloads callers pass: the command with a padded cwd, a blank
\* host, a null agentId and a plain sessionKey; the other fields are absent
Requests ==
    {[command |-> "echo ok",
      cwd |-> <<" ", "/", "t", " ">>,
      host |-> <<" ", " ">>,
      agentId |-> NullId,
      sessionKey |-> <<"s">>]}

VARIABLES
    now,        \* Date.now()
    pending,    \* ExecApprovalManager.pending : id -> PendingEntry
    records,    \* the ExecApprovalRecord objects built so far (heap)
    waits,      \* per waitForDecision call: its promise and its timer
    uuid,       \* the ids randomUUID() has returned so far
    calls,      \* exec.approval.request handler calls and the responses they got
    sent,       \* the broadcasts emitted so far: broadcast -> how many times
    out,        \* what the last handler step emitted, in order
    ret,        \* the last operation: its name and what it returned
    doctor,     \* a run of loadAndMaybeMigrateDoctorConfig: its position and locals
    restore     \* a call of restoreConfigEnvTemplates: its arguments and its result

vars == <<now, pending, records, waits, uuid, calls, sent, out, ret, doctor, restore>>

\* the doctor command is not running
Idle == [pc |-> "idle"]

\* ---------------------------------------------------------------- strings
RECURSIVE trimStart(_)
trimStart(s) ==
    IF s = <<>> THEN <<>>
    ELSE IF Head(s) \in Whitespace THEN trimStart(Tail(s)) ELSE s

RECURSIVE trimEnd(_)
trimEnd(s) ==
    IF s = <<>> THEN <<>>
    ELSE IF s[Len(s)] \in Whitespace THEN trimEnd(SubSeq(s, 1, Len(s) - 1)) ELSE s

\* String.prototype.trim
trim(s) == trimEnd(trimStart(s))

\* how the random text randomUUID() returns can begin: with a digit or with
\* one of the letters a-f. Beside the id "B" that callers write, localeCompare
\* puts a digit or an "a" before it and the letters b-f after it, while the
\* code units put "B" before every one of the letters. The heads drawn are
\* one letter from each side of "B"; a head that is a digit is not drawn, and
\* it would sort before "B" and before both letters, as "a" sorts before
\* "B" and "c"
UuidHeads == {"a", "c"}

\* a randomUUID() that returns the same value every time
randomUUIDRepeats(drawn) == {<<"a", "1">>}

\* randomUUID(): the values the next call can return. It always returns a
\* value, never blank and never one it returned before: here a random head
\* followed by a character no earlier value has
randomUUID(drawn) == {<<h, Digit[Cardinality(drawn) + 1]>> : h \in UuidHeads}

\* ------------------------------------------------------ the manager's state
\* The operations below are functions of the manager state m, so that a
\* handler can chain several of them in one uninterrupted step.
Manager == [pending |-> pending, records |-> records, waits |-> waits, uuid |-> uuid]

SetManager(m) ==
    /\ pending' = m.pending
    /\ records' = m.records
    /\ waits' = m.waits
    /\ uuid' = m.uuid

\* Map.prototype.delete
MapDelete(map, key) == [k \in (DOMAIN map) \ {key} |-> map[k]]

\* Map.prototype.set: a new key goes to the end of the insertion order
\* (position `at`), a key the map already has keeps its position
MapSet(map, key, value, at) ==
    LET position == IF key \in DOMAIN map THEN map[key].at ELSE at
    IN [k \in (DOMAIN map) \cup {key} |->
           IF k = key THEN [at |-> position] @@ value ELSE map[k]]

\* Array.from(map.values()): the values in insertion order
RECURSIVE MapValues(_)
MapValues(map) ==
    IF DOMAIN map = {} THEN <<>>
    ELSE LET first == CHOOSE k \in DOMAIN map : \A j \in DOMAIN map : map[k].at <= map[j].at
         IN <<map[first]>> \o MapValues(MapDelete(map, first))

\* the id the request handler checks for a duplicate and passes to create()
explicitId(id) == IF id # NullId /\ Len(trim(id)) > 0 THEN trim(id) ELSE NullId

\* the id create() gives the record; u is what randomUUID() returns
resolvedId(id, u) ==
    IF id # NullId /\ Len(trim(id)) > 0 THEN trim(id) ELSE u

\* what randomUUID() can return to a create(.., id) call; it is not called
\* when the id is given
uuidFor(id, drawn) ==
    IF id # NullId /\ Len(trim(id)) > 0 THEN {NullId} ELSE randomUUID(drawn)

\* create that drops the pending entry of the id it is given
createEvicts(m, t, request, timeoutMs, id, u) ==
    LET generated == ~(id # NullId /\ Len(trim(id)) > 0)
        record == [id |-> resolvedId(id, u),
                   request |-> request,
                   createdAtMs |-> t,
                   expiresAtMs |-> t + timeoutMs]
    IN [m |-> [m EXCEPT !.records = Append(@, record),
                        !.uuid = IF generated THEN @ \cup {u} ELSE @,
                        !.pending = MapDelete(@, record.id)],
        rec |-> Len(m.records) + 1]

\* ExecApprovalManager.create: builds the record, touches nothing else;
\* u is the value randomUUID() returns when it is called.
\* Result: the manager state and the index of the new record.
create(m, t, request, timeoutMs, id, u) ==
    LET generated == ~(id # NullId /\ Len(trim(id)) > 0)
        record == [id |-> resolvedId(id, u),
                   request |-> request,
                   createdAtMs |-> t,
                   expiresAtMs |-> t + timeoutMs]
    IN [m |-> [m EXCEPT !.records = Append(@, record),
                        !.uuid = IF generated THEN @ \cup {u} ELSE @],
        rec |-> Len(m.records) + 1]

\* the promise's resolve function: a promise settles once, later calls are
\* ignored; every call is recorded in `resumes`
settle(w, kind, value) ==
    [w EXCEPT !.resumes = Append(@, <<kind, value>>),
              !.settled = TRUE,
              !.value = IF w.settled THEN w.value ELSE value]

\* waitForDecision that registers the entry but never starts the timer
waitForDecisionNoTimer(m, t, r, timeoutMs) ==
    LET w == Len(m.waits) + 1
        id == m.records[r].id
    IN [m EXCEPT !.waits = Append(@, [id |-> id, rec |-> r, timer |-> "cleared",
                                      dueAt |-> t + timeoutMs, settled |-> FALSE,
                                      value |-> Nil, resumes |-> <<>>]),
                 !.pending = MapSet(@, id, [record |-> r, resolve |-> w, timer |-> w], w)]

\* waitForDecision that starts the timer but forgets pending.set
waitForDecisionUnregistered(m, t, r, timeoutMs) ==
    [m EXCEPT !.waits = Append(@, [id |-> m.records[r].id, rec |-> r, timer |-> "active",
                                   dueAt |-> t + timeoutMs, settled |-> FALSE,
                                   value |-> Nil, resumes |-> <<>>])]

\* ExecApprovalManager.waitForDecision: the promise executor runs
\* synchronously, it starts the timer and registers the entry.
waitForDecision(m, t, r, timeoutMs) ==
    LET w == Len(m.waits) + 1
        id == m.records[r].id
    IN [m EXCEPT !.waits = Append(@, [id |-> id, rec |-> r, timer |-> "active",
                                      dueAt |-> t + timeoutMs, settled |-> FALSE,
                                      value |-> Nil, resumes |-> <<>>]),
                 !.pending = MapSet(@, id, [record |-> r, resolve |-> w, timer |-> w], w)]

\* a timer callback that resumes the waiter and leaves the entry in the map
onTimeoutKeepsEntry(m, w) ==
    [m EXCEPT !.waits[w] = settle([@ EXCEPT !.timer = "fired"], "expiry", Nil)]

\* the timer callback of waitForDecision call w
onTimeout(m, w) ==
    [m EXCEPT !.pending = MapDelete(@, m.records[m.waits[w].rec].id),
              !.waits[w] = settle([@ EXCEPT !.timer = "fired"], "expiry", Nil)]

\* resolve without clearTimeout
resolveKeepsTimer(m, t, recordId, decision, resolvedBy) ==
    IF recordId \notin DOMAIN m.pending
    THEN [m |-> m, ok |-> FALSE]
    ELSE LET entry == m.pending[recordId]
             stamped == [resolvedAtMs |-> t, decision |-> decision,
                         resolvedBy |-> resolvedBy] @@ m.records[entry.record]
         IN [m |-> [m EXCEPT !.records[entry.record] = stamped,
                             !.pending = MapDelete(@, recordId),
                             !.waits[entry.resolve] = settle(@, "resolve", decision)],
             ok |-> TRUE]

\* resolve that reports success for an id that is not pending
resolveAlwaysTrue(m, t, recordId, decision, resolvedBy) ==
    IF recordId \notin DOMAIN m.pending
    THEN [m |-> m, ok |-> TRUE]
    ELSE LET entry == m.pending[recordId]
             cleared == [m.waits EXCEPT ![entry.timer].timer =
                            IF @ = "active" THEN "cleared" ELSE @]
             stamped == [resolvedAtMs |-> t, decision |-> decision,
                         resolvedBy |-> resolvedBy] @@ m.records[entry.record]
         IN [m |-> [m EXCEPT !.records[entry.record] = stamped,
                             !.pending = MapDelete(@, recordId),
                             !.waits = [cleared EXCEPT ![entry.resolve] =
                                           settle(@, "resolve", decision)]],
             ok |-> TRUE]

\* resolve without pending.delete
resolveKeepsEntry(m, t, recordId, decision, resolvedBy) ==
    IF recordId \notin DOMAIN m.pending
    THEN [m |-> m, ok |-> FALSE]
    ELSE LET entry == m.pending[recordId]
             cleared == [m.waits EXCEPT ![entry.timer].timer =
                            IF @ = "active" THEN "cleared" ELSE @]
             stamped == [resolvedAtMs |-> t, decision |-> decision,
                         resolvedBy |-> resolvedBy] @@ m.records[entry.record]
         IN [m |-> [m EXCEPT !.records[entry.record] = stamped,
                             !.waits = [cleared EXCEPT ![entry.resolve] =
                                           settle(@, "resolve", decision)]],
             ok |-> TRUE]

\* resolve that resumes the waiter without the decision
resolveDropsDecision(m, t, recordId, decision, resolvedBy) ==
    IF recordId \notin DOMAIN m.pending
    THEN [m |-> m, ok |-> FALSE]
    ELSE LET entry == m.pending[recordId]
             cleared == [m.waits EXCEPT ![entry.timer].timer =
                            IF @ = "active" THEN "cleared" ELSE @]
             stamped == [resolvedAtMs |-> t, decision |-> decision,
                         resolvedBy |-> resolvedBy] @@ m.records[entry.record]
         IN [m |-> [m EXCEPT !.records[entry.record] = stamped,
                             !.pending = MapDelete(@, recordId),
                             !.waits = [cleared EXCEPT ![entry.resolve] =
                                           settle(@, "resolve", Nil)]],
             ok |-> TRUE]

\* ExecApprovalManager.resolve. Result: the manager state and the return value.
resolve(m, t, recordId, decision, resolvedBy) ==
    IF recordId \notin DOMAIN m.pending
    THEN [m |-> m, ok |-> FALSE]
    ELSE LET entry == m.pending[recordId]
             cleared == [m.waits EXCEPT ![entry.timer].timer =
                            IF @ = "active" THEN "cleared" ELSE @]
             stamped == [resolvedAtMs |-> t, decision |-> decision,
                         resolvedBy |-> resolvedBy] @@ m.records[entry.record]
         IN [m |-> [m EXCEPT !.records[entry.record] = stamped,
                             !.pending = MapDelete(@, recordId),
                             !.waits = [cleared EXCEPT ![entry.resolve] =
                                           settle(@, "resolve", decision)]],
             ok |-> TRUE]

\* getSnapshot that finds nothing
getSnapshotBlind(m, recordId) == 0

\* ExecApprovalManager.getSnapshot: the record index, or 0 for null
getSnapshot(m, recordId) ==
    IF recordId \in DOMAIN m.pending THEN m.pending[recordId].record ELSE 0

\* Math.max
Max(a, b) == IF a >= b THEN a ELSE b

\* the letters and digits ids are made of, in alphabetical order without
\* regard to case (the primary weights of the collation)
CharRank == [ch \in {" ", "a", "B", "c"} \cup {Digit[i] : i \in DOMAIN Digit} |->
                CASE ch = " " -> 0
                  [] ch = "a" -> 10
                  [] ch = "B" -> 11
                  [] ch = "c" -> 12
                  [] OTHER -> CHOOSE i \in DOMAIN Digit : Digit[i] = ch]

\* a lower-case letter sorts before the same letter in upper case
CaseRank == [ch \in DOMAIN CharRank |-> IF ch = "B" THEN 1 ELSE 0]

\* the first difference of two strings in one of the collation's weights
RECURSIVE compareBy(_, _, _)
compareBy(rank, a, b) ==
    IF a = <<>> /\ b = <<>> THEN 0
    ELSE IF a = <<>> THEN -1
    ELSE IF b = <<>> THEN 1
    ELSE IF rank[Head(a)] # rank[Head(b)]
         THEN rank[Head(a)] - rank[Head(b)]
         ELSE compareBy(rank, Tail(a), Tail(b))

\* String.prototype.localeCompare on these strings: negative, zero or
\* positive. The collation compares the letters first and looks at their
\* case only when the letters are the same: "a" sorts before "B".
localeCompare(a, b) ==
    IF compareBy(CharRank, a, b) # 0
    THEN compareBy(CharRank, a, b)
    ELSE compareBy(CaseRank, a, b)

\* the comparator of listPending without the id tie-break
comparePendingNoTieBreak(a, b) == a.createdAtMs - b.createdAtMs

\* the comparator of listPending: a.createdAtMs - b.createdAtMs || a.id.localeCompare(b.id)
comparePending(a, b) ==
    IF a.createdAtMs - b.createdAtMs # 0
    THEN a.createdAtMs - b.createdAtMs
    ELSE localeCompare(a.id, b.id)

\* the place of x in a sorted array: after every element that does not
\* compare greater than it
RECURSIVE insertSorted(_, _)
insertSorted(sorted, x) ==
    IF sorted = <<>> THEN <<x>>
    ELSE IF comparePending(Head(sorted), x) <= 0
         THEN <<Head(sorted)>> \o insertSorted(Tail(sorted), x)
         ELSE <<x>> \o sorted

\* Array.prototype.toSorted with that comparator: a stable sort
RECURSIVE toSorted(_)
toSorted(items) ==
    IF items = <<>> THEN <<>>
    ELSE insertSorted(toSorted(SubSeq(items, 1, Len(items) - 1)), items[Len(items)])

\* normalizeOptionalString: undefined (here NullId) for a value that is not
\* a string (null, here NullId) or is blank, the trimmed string otherwise
normalizeOptionalString(value) ==
    IF value = NullId THEN NullId
    ELSE IF trim(value) = <<>> THEN NullId ELSE trim(value)

\* record.request[field], undefined when the request does not have it
requestField(request, field) ==
    IF field \in DOMAIN request THEN request[field] ELSE NullId

\* the item listPending makes of a record, at the clamped time t; a field
\* whose value is undefined is left out
pendingItem(record, t) ==
    [id |-> record.id,
     command |-> record.request.command,
     createdAtMs |-> record.createdAtMs,
     expiresAtMs |-> record.expiresAtMs,
     waitingMs |-> Max(0, t - record.createdAtMs),
     expiresInMs |-> Max(0, record.expiresAtMs - t)]
    @@ [f \in {g \in OptionalFields :
                  normalizeOptionalString(requestField(record.request, g)) # NullId} |->
           normalizeOptionalString(requestField(record.request, f))]

\* listPending without the clamp of expiresInMs
listPendingUnclamped(m, nowMs) ==
    LET t == Max(0, nowMs)
        item(r) == LET record == m.records[r]
                   IN [pendingItem(record, t) EXCEPT !.expiresInMs = record.expiresAtMs - t]
        values == MapValues(m.pending)
    IN toSorted([i \in 1..Len(values) |-> item(values[i].record)])

\* listPending that lists every record ever registered, terminated or not
listPendingKeepsTerminated(m, nowMs) ==
    LET t == Max(0, nowMs)
    IN toSorted([w \in 1..Len(m.waits) |-> pendingItem(m.records[m.waits[w].rec], t)])

\* ExecApprovalManager.listPending for a finite nowMs
listPending(m, nowMs) ==
    LET t == Max(0, nowMs)
        values == MapValues(m.pending)
    IN toSorted([i \in 1..Len(values) |-> pendingItem(m.records[values[i].record], t)])

\* --------------------------------------------------------------------- Init
Init ==
    /\ now = 0
    /\ pending = <<>>
    /\ records = <<>>
    /\ waits = <<>>
    /\ uuid = {}
    /\ calls = <<>>
    /\ sent = <<>>
    /\ out = <<>>
    /\ ret = [op |-> "init"]
    /\ doctor = Idle
    /\ restore = Idle

\* the ids a caller can name: the literal ones and the generated ones it has seen
KnownIds == ({explicitId(i) : i \in IdInputs} \ {NullId}) \cup uuid

\* a continuation of an awaiting request handler is ready to run
MicrotaskReady == \E c \in 1..Len(calls) : calls[c].state = "awaiting" /\ waits[calls[c].wait].settled

\* ------------------------------------------------- direct use of the manager
Tick ==
    /\ now < MaxTime
    /\ now' = now + 1
    /\ UNCHANGED <<pending, records, waits, uuid, calls, sent, out, ret, doctor, restore>>

StoreCreate(request, timeoutMs, id) ==
    /\ Len(records) + Len(waits) < MaxObjects
    /\ now + timeoutMs <= MaxTime
    /\ \E u \in uuidFor(id, uuid) :
          LET res == create(Manager, now, request, timeoutMs, id, u)
          IN /\ SetManager(res.m)
             /\ ret' = [op |-> "create", rec |-> res.rec]
    /\ UNCHANGED <<now, calls, sent, out, doctor, restore>>

\* the caller passes the timeoutMs it built the record with
StoreWaitForDecision(r) ==
    /\ Len(records) + Len(waits) < MaxObjects
    /\ r \in 1..Len(records)
    /\ LET timeoutMs == records[r].expiresAtMs - records[r].createdAtMs
       IN /\ now + timeoutMs <= MaxTime
          /\ SetManager(waitForDecision(Manager, now, r, timeoutMs))
    /\ ret' = [op |-> "waitForDecision", wait |-> Len(waits) + 1]
    /\ UNCHANGED <<now, calls, sent, out, doctor, restore>>

StoreResolve(id, decision, by) ==
    /\ LET res == resolve(Manager, now, id, decision, by)
       IN /\ SetManager(res.m)
          /\ ret' = [op |-> "resolve", id |-> id, ok |-> res.ok]
    /\ UNCHANGED <<now, calls, sent, out, doctor, restore>>

\* the expiry timer of waitForDecision call w fires. setTimeout counts on
\* the event loop's clock, not on Date.now(): the callback can run while
\* Date.now() still reads one millisecond less than the due time.
TimerFires(w) ==
    /\ w \in 1..Len(waits)
    /\ waits[w].timer = "active"
    /\ now + 1 >= waits[w].dueAt
    /\ ~MicrotaskReady
    /\ SetManager(onTimeout(Manager, w))
    /\ ret' = [op |-> "timeout"]
    /\ out' = <<>>
    /\ UNCHANGED <<now, calls, sent, doctor, restore>>

\* the nowMs arguments callers pass to listPending: negative, zero, and a
\* time after every expiry
NowInputs == {-1, 0, MaxTime}

\* listPending called with nowMs
StoreListPending(nowMs) ==
    /\ ret' = [op |-> "listPending", nowMs |-> nowMs, items |-> listPending(Manager, nowMs)]
    /\ UNCHANGED <<now, pending, records, waits, uuid, calls, sent, out, doctor, restore>>

StoreNext ==
    \/ Tick
    \/ \E request \in Requests, t \in Timeouts, id \in IdInputs : StoreCreate(request, t, id)
    \/ \E r \in 1..MaxObjects : StoreWaitForDecision(r)
    \/ \E id \in KnownIds, di \in ResolveInputs : StoreResolve(id, di[1], di[2])
    \/ \E w \in 1..MaxObjects : TimerFires(w)

StoreSpec == Init /\ [][StoreNext]_vars

\* setTimeout: the clock advances and the event loop runs a callback that is due
FairStoreSpec ==
    /\ StoreSpec
    /\ WF_vars(Tick)
    /\ WF_vars(\E w \in 1..MaxObjects : TimerFires(w))

\* getSnapshot called with an id
StoreGetSnapshot(id) ==
    /\ ret' = [op |-> "getSnapshot", id |-> id, rec |-> getSnapshot(Manager, id)]
    /\ UNCHANGED <<now, pending, records, waits, uuid, calls, sent, out, doctor, restore>>

\* direct use of the manager with the two lookups called in between
LifecycleNext ==
    \/ Tick
    \/ \E id \in KnownIds : StoreGetSnapshot(id)
    \/ \E nowMs \in NowInputs : StoreListPending(nowMs)
    \/ \E request \in Requests, t \in Timeouts, id \in IdInputs : StoreCreate(request, t, id)
    \/ \E r \in 1..MaxObjects : StoreWaitForDecision(r)
    \/ \E id \in KnownIds, di \in ResolveInputs : StoreResolve(id, di[1], di[2])
    \/ \E w \in 1..MaxObjects : TimerFires(w)

LifecycleSpec == Init /\ [][LifecycleNext]_vars

\* ------------------------------------------------------ the request handlers
\* context.broadcast(event, payload)
broadcast(event, payload) == [kind |-> "broadcast", event |-> event, payload |-> payload]

\* respond(ok, payload, error) of a call of a method
respond(method, ok, payload) ==
    [kind |-> "respond", method |-> method, ok |-> ok, payload |-> payload]

\* the broadcasts among the events of a step, added to those sent before
RECURSIVE Sent(_, _)
Sent(before, events) ==
    IF events = <<>> THEN before
    ELSE LET e == Head(events)
             counted == IF e.kind # "broadcast" THEN before
                        ELSE IF e \in DOMAIN before THEN [before EXCEPT ![e] = @ + 1]
                        ELSE [x \in (DOMAIN before) \cup {e} |->
                                 IF x = e THEN 1 ELSE before[x]]
         IN Sent(counted, Tail(events))

\* the decisions exec.approval.resolve accepts
ExecApprovalDecisions == {"allow-once", "allow-always", "deny"}

\* the (decision, resolvedBy) pairs of exec.approval.resolve calls: the
\* resolver is the client "CLI"; the last decision is not one of the enum
ResolveParams == {<<"allow-once", "CLI">>, <<"deny", "CLI">>, <<"approve", "CLI">>}

\* the ids exec.approval.resolve is called with: the ids a caller can name,
\* and no id at all
ResolveIds == KnownIds \cup {NullId}

\* validation of the exec.approval.resolve params
validateExecApprovalResolveParams(id, decision) ==
    id # NullId /\ decision \in ExecApprovalDecisions

\* handlers["exec.approval.resolve"]: runs to completion.
\* Result: the manager state, what it emitted and whether it succeeded.
resolveHandler(m, id, decision, resolvedBy) ==
    IF ~validateExecApprovalResolveParams(id, decision)
    THEN [m |-> m,
          out |-> <<respond("exec.approval.resolve", FALSE,
                            [message |-> "invalid exec.approval.resolve params"])>>,
          ok |-> FALSE]
    ELSE LET res == resolve(m, now, id, decision, resolvedBy)
         IN IF ~res.ok
            THEN [m |-> m,
                  out |-> <<respond("exec.approval.resolve", FALSE,
                                    [message |-> "unknown/already-finalized id"])>>,
                  ok |-> FALSE]
            ELSE [m |-> res.m,
                  out |-> <<broadcast("exec.approval.resolved",
                                      [id |-> id, decision |-> decision,
                                       resolvedBy |-> resolvedBy]),
                            respond("exec.approval.resolve", TRUE, [ok |-> TRUE])>>,
                  ok |-> TRUE]

\* what a listener of the "exec.approval.requested" broadcast does inside the
\* delivery: nothing, or it calls exec.approval.resolve for the broadcast id
Reactions == {<<>>, <<"allow-once", "CLI">>}

\* the params of exec.approval.request calls without id and timeoutMs: the
\* request payloads, and params that lack the command
RequestParams == Requests \cup {[cwd |-> <<"/", "t">>]}

\* validation of the exec.approval.request params: the command is required,
\* the other fields are the optional ones
validateExecApprovalRequestParams(params) ==
    /\ "command" \in DOMAIN params
    /\ DOMAIN params \subseteq {"command"} \cup OptionalFields

\* handlers["exec.approval.request"] up to its await
Request(request, id, timeoutMs, reaction) ==
    /\ Len(calls) < MaxCalls
    /\ ~MicrotaskReady
    /\ now + timeoutMs <= MaxTime
    /\ IF ~validateExecApprovalRequestParams(request)
       THEN LET failure == respond("exec.approval.request", FALSE,
                                   [message |-> "invalid exec.approval.request params"])
            IN /\ reaction = <<>>
               /\ calls' = Append(calls, [state |-> "done", outcome |-> "invalid",
                                          wait |-> 0, reaction |-> <<>>,
                                          responses |-> <<failure>>])
               /\ out' = <<failure>>
               /\ UNCHANGED <<pending, records, waits, uuid, sent>>
       ELSE IF explicitId(id) # NullId /\ getSnapshot(Manager, explicitId(id)) # 0
       THEN LET failure == respond("exec.approval.request", FALSE,
                                   [message |-> "approval id already pending"])
            IN /\ reaction = <<>>
               /\ calls' = Append(calls, [state |-> "done", outcome |-> "duplicate",
                                          wait |-> 0, reaction |-> <<>>,
                                          responses |-> <<failure>>])
               /\ out' = <<failure>>
               /\ UNCHANGED <<pending, records, waits, uuid, sent>>
       ELSE \E u \in uuidFor(explicitId(id), uuid) :
            LET made == create(Manager, now, request, timeoutMs, explicitId(id), u)
                rec == made.m.records[made.rec]
                registered == waitForDecision(made.m, now, made.rec, timeoutMs)
                requested == broadcast("exec.approval.requested",
                                 [id |-> rec.id, request |-> rec.request,
                                  createdAtMs |-> rec.createdAtMs,
                                  expiresAtMs |-> rec.expiresAtMs])
                nested == IF reaction = <<>>
                          THEN [m |-> registered, out |-> <<>>]
                          ELSE resolveHandler(registered, rec.id, reaction[1], reaction[2])
            IN /\ Len(records) + Len(waits) < MaxObjects    \* room in the manager
               /\ calls' = Append(calls, [state |-> "awaiting", outcome |-> "accepted",
                                          wait |-> Len(registered.waits),
                                          reaction |-> reaction, responses |-> <<>>])
               /\ SetManager(nested.m)
               /\ out' = <<requested>> \o nested.out
               /\ sent' = Sent(sent, <<requested>> \o nested.out)
    /\ ret' = [op |-> "request"]
    /\ UNCHANGED <<now, doctor, restore>>

\* the continuation of request call c after its await
RequestResume(c) ==
    /\ c \in 1..Len(calls)
    /\ calls[c].state = "awaiting"
    /\ waits[calls[c].wait].settled
    /\ LET success == respond("exec.approval.request", TRUE,
                               [id |-> records[waits[calls[c].wait].rec].id,
                                decision |-> waits[calls[c].wait].value])
       IN /\ calls' = [calls EXCEPT ![c].state = "done", ![c].responses = Append(@, success)]
          /\ out' = <<success>>
    /\ ret' = [op |-> "resume"]
    /\ UNCHANGED <<now, pending, records, waits, uuid, sent, doctor, restore>>

\* handlers["exec.approval.resolve"] called on its own
Resolve(id, decision, resolvedBy) ==
    /\ ~MicrotaskReady
    /\ LET res == resolveHandler(Manager, id, decision, resolvedBy)
       IN /\ SetManager(res.m)
          /\ out' = res.out
          /\ sent' = Sent(sent, res.out)
          /\ ret' = [op |-> "resolve", ok |-> res.ok]
    /\ UNCHANGED <<now, calls, doctor, restore>>

\* the params objects callers pass to exec.approval.pending, as their key sets
PendingParams == {{}, {"extra"}}

\* handlers["exec.approval.pending"]: validates the params, then lists
pendingHandler(m, params, nowMs) ==
    IF params # {}
    THEN <<respond("exec.approval.pending", FALSE,
                   [message |-> "invalid exec.approval.pending params"])>>
    ELSE <<respond("exec.approval.pending", TRUE,
                   [nowMs |-> nowMs, pending |-> listPending(m, nowMs)])>>

\* handlers["exec.approval.pending"] called at the current time
Pending(params) ==
    /\ ~MicrotaskReady
    /\ out' = pendingHandler(Manager, params, now)
    /\ ret' = [op |-> "pending"]
    /\ UNCHANGED <<now, pending, records, waits, uuid, calls, sent, doctor, restore>>

\* the three handlers, the continuations of the requests, the timers and the clock
Next ==
    \/ Tick
    \/ \E request \in RequestParams, id \in IdInputs, t \in Timeouts, reaction \in Reactions :
          Request(request, id, t, reaction)
    \/ \E c \in 1..MaxCalls : RequestResume(c)
    \/ \E id \in ResolveIds, di \in ResolveParams : Resolve(id, di[1], di[2])
    \/ \E params \in PendingParams : Pending(params)
    \/ \E w \in 1..MaxCalls : TimerFires(w)

Spec == Init /\ [][Next]_vars

\* the microtask queue is drained: a continuation that is ready does run
FairSpec ==
    /\ Spec
    /\ WF_vars(\E c \in 1..MaxCalls : RequestResume(c))

\* ---------------------------------------------- the doctor command's config
\* loadAndMaybeMigrateDoctorConfig (src/commands/doctor-config-flow.ts).
\* A config is known by the repairs that were applied to the loaded one: the
\* repair functions themselves are outside this file.
BaseCfg == {}
RepairSteps == {"legacy", "normalize", "autoEnable", "strip"}

\* params.options: the repair and yes flags
DoctorOptions == [repair : BOOLEAN, yes : BOOLEAN]

\* what snapshot.legacyIssues and migrateLegacyConfig can give: whether there
\* are legacy issues, whether a migrated config came back, whether changes did
LegacyOutcomes ==
    {o \in [issues : BOOLEAN, migrated : BOOLEAN, changes : BOOLEAN] :
        ~o.issues => (~o.migrated /\ ~o.changes)}

\* the CLI profile of the process: none, or a named one
Profiles == {Nil, "work"}

\* the words of the command line `openclaw doctor --fix`
DoctorFix == <<"openclaw", "doctor", "--fix">>

\* the words of a command line as one text
RECURSIVE joinWords(_)
joinWords(words) ==
    IF Len(words) = 1 THEN words[1]
    ELSE words[1] \o " " \o joinWords(Tail(words))

\* formatCliCommand (src/cli/command-format.js): the command line as the
\* user has to type it, with the profile flag after the program name when the
\* process runs under a profile
formatCliCommand(command, profile) ==
    IF profile = Nil THEN joinWords(command)
    ELSE joinWords(<<Head(command), "--profile", profile>> \o Tail(command))

\* the hints collected in fixHints
HintLegacy(profile) ==
    "Run \"" \o formatCliCommand(DoctorFix, profile) \o "\" to apply legacy migrations."
HintApply(profile) ==
    "Run \"" \o formatCliCommand(DoctorFix, profile) \o "\" to apply these changes."
HintRemove == "Run \"openclaw doctor --fix\" to remove these keys."

\* const shouldRepair = options.repair === true || options.yes === true
shouldRepair(options) == options.repair = TRUE \/ options.yes = TRUE

\* the locals after readConfigFileSnapshot, and the profile of the process
loadLocals(options, profile) ==
    [options |-> options,
     profile |-> profile,
     cfg |-> BaseCfg,
     candidate |-> BaseCfg,
     pendingChanges |-> FALSE,
     shouldWriteConfig |-> FALSE,
     fixHints |-> <<>>]

\* the legacy migration block
legacyStep(d, o) ==
    IF ~o.issues THEN d
    ELSE LET migrated == {"legacy"}
             taken == IF o.migrated
                      THEN [d EXCEPT !.candidate = migrated,
                                     !.pendingChanges = @ \/ o.changes]
                      ELSE d
         IN IF shouldRepair(d.options)
            THEN IF o.migrated THEN [taken EXCEPT !.cfg = migrated] ELSE taken
            ELSE [taken EXCEPT !.fixHints = Append(@, HintLegacy(d.profile))]

\* a repair block that writes cfg whether or not repairs were asked for
repairStepAppliesAlways(d, step, changed, hint) ==
    IF ~changed THEN d
    ELSE LET config == d.candidate \cup {step}
         IN [d EXCEPT !.candidate = config,
                      !.pendingChanges = TRUE,
                      !.cfg = config]

\* the blocks of normalizeLegacyConfigValues, applyPluginAutoEnable and
\* stripUnknownConfigKeys: `changed` says whether the function reported changes
repairStep(d, step, changed, hint) ==
    IF ~changed THEN d
    ELSE LET config == d.candidate \cup {step}
         IN IF shouldRepair(d.options)
            THEN [d EXCEPT !.candidate = config,
                           !.pendingChanges = TRUE,
                           !.cfg = config]
            ELSE [d EXCEPT !.candidate = config,
                           !.pendingChanges = TRUE,
                           !.fixHints = Append(@, hint)]

\* if (!shouldRepair && pendingChanges): the prompt is shown
needsConfirm(d) == ~shouldRepair(d.options) /\ d.pendingChanges

\* the block after the prompt that sets shouldWriteConfig whatever the answer
afterConfirmWritesAlways(d, shouldApply) ==
    [d EXCEPT !.cfg = d.candidate, !.shouldWriteConfig = TRUE]

\* the block after the prompt was answered
afterConfirm(d, shouldApply) ==
    IF shouldApply
    THEN [d EXCEPT !.cfg = d.candidate, !.shouldWriteConfig = TRUE]
    ELSE d

\* the doctor command starts and loads the config snapshot
DoctorLoad(options, profile) ==
    /\ doctor = Idle
    /\ doctor' = [pc |-> "legacy", d |-> loadLocals(options, profile),
                  reported |-> {}, taken |-> {}, prompts |-> <<>>]
    /\ UNCHANGED <<now, pending, records, waits, uuid, calls, sent, out, ret, restore>>

DoctorLegacy(o) ==
    /\ doctor # Idle /\ doctor.pc = "legacy"
    /\ doctor' = [doctor EXCEPT !.pc = "normalize",
                                !.d = legacyStep(@, o),
                                !.reported = IF o.changes THEN {"legacy"} ELSE {},
                                !.taken = IF o.migrated THEN {"legacy"} ELSE {}]
    /\ UNCHANGED <<now, pending, records, waits, uuid, calls, sent, out, ret, restore>>

DoctorNormalize(changed) ==
    /\ doctor # Idle /\ doctor.pc = "normalize"
    /\ doctor' = [doctor EXCEPT !.pc = "autoEnable",
                                !.d = repairStep(@, "normalize", changed, HintApply(@.profile)),
                                !.reported = IF changed THEN @ \cup {"normalize"} ELSE @,
                                !.taken = IF changed THEN @ \cup {"normalize"} ELSE @]
    /\ UNCHANGED <<now, pending, records, waits, uuid, calls, sent, out, ret, restore>>

DoctorAutoEnable(changed) ==
    /\ doctor # Idle /\ doctor.pc = "autoEnable"
    /\ doctor' = [doctor EXCEPT !.pc = "strip",
                                !.d = repairStep(@, "autoEnable", changed, HintApply(@.profile)),
                                !.reported = IF changed THEN @ \cup {"autoEnable"} ELSE @,
                                !.taken = IF changed THEN @ \cup {"autoEnable"} ELSE @]
    /\ UNCHANGED <<now, pending, records, waits, uuid, calls, sent, out, ret, restore>>

\* the last repair block; the flow then reaches the prompt or the return
DoctorStrip(removed) ==
    /\ doctor # Idle /\ doctor.pc = "strip"
    /\ LET d == repairStep(doctor.d, "strip", removed, HintRemove)
       IN doctor' = [doctor EXCEPT !.pc = IF needsConfirm(d) THEN "confirm" ELSE "return",
                                   !.d = d,
                                   !.reported = IF removed THEN @ \cup {"strip"} ELSE @,
                                   !.taken = IF removed THEN @ \cup {"strip"} ELSE @]
    /\ UNCHANGED <<now, pending, records, waits, uuid, calls, sent, out, ret, restore>>

\* params.confirm is called and answered
DoctorConfirm(shouldApply) ==
    /\ doctor # Idle /\ doctor.pc = "confirm"
    /\ doctor' = [doctor EXCEPT !.pc = "return",
                                !.d = afterConfirm(@, shouldApply),
                                !.prompts = Append(@, shouldApply)]
    /\ UNCHANGED <<now, pending, records, waits, uuid, calls, sent, out, ret, restore>>

\* return { cfg, path, shouldWriteConfig, sourceParsedConfig }
DoctorReturn ==
    /\ doctor # Idle /\ doctor.pc = "return"
    /\ doctor' = [pc |-> "done", d |-> doctor.d, reported |-> doctor.reported,
                  taken |-> doctor.taken, prompts |-> doctor.prompts,
                  result |-> [cfg |-> doctor.d.cfg,
                              shouldWriteConfig |-> doctor.d.shouldWriteConfig]]
    /\ UNCHANGED <<now, pending, records, waits, uuid, calls, sent, out, ret, restore>>

DoctorNext ==
    \/ \E options \in DoctorOptions, profile \in Profiles : DoctorLoad(options, profile)
    \/ \E o \in LegacyOutcomes : DoctorLegacy(o)
    \/ \E changed \in BOOLEAN : DoctorNormalize(changed)
    \/ \E changed \in BOOLEAN : DoctorAutoEnable(changed)
    \/ \E removed \in BOOLEAN : DoctorStrip(removed)
    \/ \E shouldApply \in BOOLEAN : DoctorConfirm(shouldApply)
    \/ DoctorReturn

DoctorSpec == Init /\ [][DoctorNext]_vars

\* ------------------------------------------- restoring the env templates
\* restoreConfigEnvTemplates (src/commands/doctor-config-flow.ts).
\* JSON values: a string, a number, an array or an object, told apart by
\* the one field they have.
Str(s) == [str |-> s]
Num == [num |-> 0]
Arr(items) == [items |-> items]
Obj(fields) == [fields |-> fields]
Undefined == [undefined |-> TRUE]

\* typeof value === "string", Array.isArray(value), isRecord(value)
isString(value) == DOMAIN value = {"str"}
isArray(value) == DOMAIN value = {"items"}
isRecord(value) == DOMAIN value = {"fields"}

\* JsonPathPart: a key or a 0-based index
Key(k) == [key |-> k]
Index(i) == [index |-> i]

\* resolveConfigEnvVars on a string: ${A} becomes the value of A and fails
\* when A is not set, $${A} becomes the text ${A}, other text stays
resolveConfigEnvVars(text, env) ==
    IF text = "${A}"
    THEN IF "A" \in DOMAIN env THEN [ok |-> TRUE, value |-> env["A"]] ELSE [ok |-> FALSE]
    ELSE IF text = "$${A}" THEN [ok |-> TRUE, value |-> "${A}"]
    ELSE [ok |-> TRUE, value |-> text]

\* the keys of an object in the order Object.entries gives them: the
\* objects here are written with their keys in this order
KeyOrder == <<"a", "b", "c">>
entriesOrder(keys) == SelectSeq(KeyOrder, LAMBDA k : k \in keys)

\* collectEnvTemplateEntries: the strings of the raw config that env
\* substitution changes, with their paths
RECURSIVE collectEnvTemplateEntries(_, _, _)
RECURSIVE collectFromItems(_, _, _, _)
RECURSIVE collectFromFields(_, _, _, _)
collectFromItems(items, env, path, i) ==
    IF i > Len(items) THEN <<>>
    ELSE collectEnvTemplateEntries(items[i], env, Append(path, Index(i - 1)))
            \o collectFromItems(items, env, path, i + 1)

collectFromFields(fields, keys, env, path) ==
    IF keys = <<>> THEN <<>>
    ELSE collectEnvTemplateEntries(fields[Head(keys)], env, Append(path, Key(Head(keys))))
            \o collectFromFields(fields, Tail(keys), env, path)

collectEnvTemplateEntries(value, env, path) ==
    IF isString(value)
    THEN LET resolved == resolveConfigEnvVars(value.str, env)
         IN IF resolved.ok /\ resolved.value # value.str
            THEN <<[path |-> path, template |-> value.str, resolved |-> resolved.value]>>
            ELSE <<>>
    ELSE IF isArray(value) THEN collectFromItems(value.items, env, path, 1)
    ELSE IF isRecord(value)
         THEN collectFromFields(value.fields, entriesOrder(DOMAIN value.fields), env, path)
    ELSE <<>>

RECURSIVE getValueAtPath(_, _)
getValueAtPath(root, path) ==
    IF path = <<>> THEN root
    ELSE LET part == Head(path)
         IN IF DOMAIN part = {"index"}
            THEN IF ~isArray(root) \/ part.index < 0 \/ part.index >= Len(root.items)
                 THEN Undefined
                 ELSE getValueAtPath(root.items[part.index + 1], Tail(path))
            ELSE IF ~isRecord(root) \/ part.key \notin DOMAIN root.fields
                 THEN Undefined
                 ELSE getValueAtPath(root.fields[part.key], Tail(path))

\* setValueAtPath. Result: whether it wrote, and the root after the write.
RECURSIVE setValueAtPath(_, _, _)
setValueAtPath(root, path, value) ==
    IF path = <<>> THEN [ok |-> FALSE, root |-> root]
    ELSE LET part == Head(path)
             leaf == Len(path) = 1
         IN IF DOMAIN part = {"index"}
            THEN IF ~isArray(root) \/ part.index < 0 \/ part.index >= Len(root.items)
                 THEN [ok |-> FALSE, root |-> root]
                 ELSE IF leaf
                      THEN [ok |-> TRUE,
                            root |-> Arr([root.items EXCEPT ![part.index + 1] = Str(value)])]
                      ELSE LET sub == setValueAtPath(root.items[part.index + 1],
                                                     Tail(path), value)
                           IN [ok |-> sub.ok,
                               root |-> Arr([root.items EXCEPT ![part.index + 1] = sub.root])]
            ELSE IF ~isRecord(root) \/ part.key \notin DOMAIN root.fields
                 THEN [ok |-> FALSE, root |-> root]
                 ELSE IF leaf
                      THEN [ok |-> TRUE,
                            root |-> Obj([root.fields EXCEPT ![part.key] = Str(value)])]
                      ELSE LET sub == setValueAtPath(root.fields[part.key], Tail(path), value)
                           IN [ok |-> sub.ok,
                               root |-> Obj([root.fields EXCEPT ![part.key] = sub.root])]

\* the loop over the template entries, on the object `next`
RECURSIVE restoreEntries(_, _)
restoreEntries(next, entries) ==
    IF entries = <<>> THEN next
    ELSE LET entry == Head(entries)
         IN IF getValueAtPath(next, entry.path) # Str(entry.resolved)
            THEN restoreEntries(next, Tail(entries))
            ELSE restoreEntries(setValueAtPath(next, entry.path, entry.template).root,
                                Tail(entries))

\* restoreConfigEnvTemplates that writes into params.config itself
restoreConfigEnvTemplatesInPlace(params) ==
    LET templateEntries == collectEnvTemplateEntries(params.rawConfig, params.env, <<>>)
        next == restoreEntries(params.config, templateEntries)
    IN [returned |-> next, same |-> TRUE, config |-> next]

\* restoreConfigEnvTemplates that puts every template back, whatever the
\* config holds at its path
restoreConfigEnvTemplatesUnchecked(params) ==
    LET templateEntries == collectEnvTemplateEntries(params.rawConfig, params.env, <<>>)
        RECURSIVE writeAll(_, _)
        writeAll(next, entries) ==
            IF entries = <<>> THEN next
            ELSE writeAll(setValueAtPath(next, Head(entries).path, Head(entries).template).root,
                          Tail(entries))
    IN IF templateEntries = <<>>
       THEN [returned |-> params.config, same |-> TRUE, config |-> params.config]
       ELSE [returned |-> writeAll(params.config, templateEntries),
             same |-> FALSE, config |-> params.config]

\* restoreConfigEnvTemplates. Result: the value returned, whether it is the
\* object passed as params.config, and params.config after the call.
restoreConfigEnvTemplates(params) ==
    LET templateEntries == collectEnvTemplateEntries(params.rawConfig, params.env, <<>>)
    IN IF templateEntries = <<>>
       THEN [returned |-> params.config, same |-> TRUE, config |-> params.config]
       ELSE [returned |-> restoreEntries(params.config, templateEntries),
             same |-> FALSE, config |-> params.config]

\* the raw configs, the configs and the environments of the calls
RawStrings == {"x", "${A}", "$${A}"}
ConfigStrings == {"x", "y", "${A}"}
RawChildren ==
    {Str(t) : t \in RawStrings}
        \cup {Arr(<<Str(t)>>) : t \in RawStrings}
        \cup {Arr(<<Str("x"), Str("${A}")>>)}
        \cup {Obj("c" :> Str(t)) : t \in RawStrings}
ConfigChildren ==
    {Str(t) : t \in ConfigStrings}
        \cup {Num}
        \cup {Arr(<<Str(t)>>) : t \in ConfigStrings}
        \cup {Arr(<<Str("x"), Str(t)>>) : t \in ConfigStrings}
        \cup {Obj("c" :> Str(t)) : t \in ConfigStrings}
        \cup {Obj(<<>>)}
RawConfigs ==
    {Str("${A}")}
        \cup {Obj(<<>>), Obj("b" :> Str("${A}"))}
        \cup {Obj("a" :> child) : child \in RawChildren}
        \cup {Obj(("a" :> child) @@ ("b" :> Str("${A}"))) : child \in RawChildren}
Configs ==
    {Obj(<<>>)}
        \cup {Obj("b" :> Str(t)) : t \in {"x", "${A}"}}
        \cup {Obj("a" :> child) : child \in ConfigChildren}
        \cup {Obj(("a" :> child) @@ ("b" :> Str(t))) : child \in ConfigChildren, t \in {"x", "${A}"}}
Envs == {<<>>} \cup {"A" :> t : t \in {"x", "y"}}

\* a caller is about to call restoreConfigEnvTemplates(params)
RestoreCall(rawConfig, config, env) ==
    /\ restore = Idle
    /\ restore' = [pc |-> "called",
                   params |-> [rawConfig |-> rawConfig, config |-> config, env |-> env]]
    /\ UNCHANGED <<now, pending, records, waits, uuid, calls, sent, out, ret, doctor>>

\* the call runs and returns
RestoreReturn ==
    /\ restore # Idle /\ restore.pc = "called"
    /\ restore' = [pc |-> "done", params |-> restore.params,
                   result |-> restoreConfigEnvTemplates(restore.params)]
    /\ UNCHANGED <<now, pending, records, waits, uuid, calls, sent, out, ret, doctor>>

RestoreNext ==
    \/ \E rawConfig \in RawConfigs, config \in Configs, env \in Envs :
          RestoreCall(rawConfig, config, env)
    \/ RestoreReturn

RestoreSpec == Init /\ [][RestoreNext]_vars

\* ------------------------------------------------------------------ helpers
\* the responses among the events of a step
Responded(events, method) ==
    {i \in 1..Len(events) : events[i].kind = "respond" /\ events[i].method = method}

\* how many times a broadcast was emitted
Count(bag, e) == IF e \in DOMAIN bag THEN bag[e] ELSE 0

\* waitForDecision call w still owns the entry of its id
Registered(w) == \E id \in DOMAIN pending : pending[id].resolve = w

\* how many broadcasts of an event were emitted for an id
RECURSIVE SumOver(_, _)
SumOver(bag, es) ==
    IF es = {} THEN 0
    ELSE LET e == CHOOSE x \in es : TRUE
         IN bag[e] + SumOver(bag, es \ {e})

BroadcastCount(bag, event, id) ==
    SumOver(bag, {e \in DOMAIN bag : e.event = event /\ e.payload.id = id})

\* UTF-16 code units of the characters ids are made of
CodeUnit == [ch \in {" ", "a", "B", "c"} \cup {Digit[i] : i \in DOMAIN Digit} |->
                CASE ch = " " -> 32
                  [] ch = "B" -> 66
                  [] ch = "a" -> 97
                  [] ch = "c" -> 99
                  [] OTHER -> 48 + (CHOOSE i \in DOMAIN Digit : Digit[i] = ch)]

\* a comes before b in lexicographic order
RECURSIVE LexLess(_, _)
LexLess(a, b) ==
    IF b = <<>> THEN FALSE
    ELSE IF a = <<>> THEN TRUE
    ELSE IF CodeUnit[Head(a)] # CodeUnit[Head(b)] THEN CodeUnit[Head(a)] < CodeUnit[Head(b)]
    ELSE LexLess(Tail(a), Tail(b))

\* the sequence backwards
Reverse(seq) == [i \in 1..Len(seq) |-> seq[Len(seq) + 1 - i]]

\* ------------------------------------------------------------------- claims
\* C1: every waiter registered by waitForDecision is resumed at most once,
\* either by an explicit resolve (it gets that decision, its timer is
\* cancelled and never fires) or by its timer (it gets null); never by both.
C1_ResumedAtMostOnce ==
    \A w \in 1..Len(waits) :
        /\ Len(waits[w].resumes) <= 1
        /\ waits[w].settled <=> Len(waits[w].resumes) = 1
        /\ Len(waits[w].resumes) = 1 =>
              \/ /\ waits[w].resumes[1][1] = "resolve"
                 /\ waits[w].value \in Decisions
                 /\ waits[w].value = waits[w].resumes[1][2]
                 /\ waits[w].timer = "cleared"
              \/ /\ waits[w].resumes[1][1] = "expiry"
                 /\ waits[w].value = Nil
                 /\ waits[w].timer = "fired"

\* a waiter resolved at a time its timer was already due, and another one expired
C1_Witness ==
    /\ \E w \in 1..Len(waits) :
          /\ waits[w].resumes # <<>> /\ waits[w].resumes[1][1] = "resolve"
          /\ records[waits[w].rec].resolvedAtMs >= waits[w].dueAt
    /\ \E w \in 1..Len(waits) :
          waits[w].resumes # <<>> /\ waits[w].resumes[1][1] = "expiry"

\* C2: when exec.approval.resolve for the new id is called from inside the
\* delivery of the "exec.approval.requested" broadcast, the resolve call
\* responds with success; the request completes exactly once with the
\* resolved decision: it does respond, its one response carries that
\* decision, and no further response follows; and the request's timer is
\* cancelled, so it never fires.
C2_ResolveDuringBroadcast ==
    /\ [][\A request \in Requests, id \in IdInputs, t \in Timeouts, reaction \in Reactions \ {<<>>} :
            (ret'.op = "request" /\ Request(request, id, t, reaction)) =>
                /\ Len(out') = 3
                /\ out'[1].kind = "broadcast" /\ out'[1].event = "exec.approval.requested"
                /\ out'[2] = broadcast("exec.approval.resolved",
                                       [id |-> out'[1].payload.id, decision |-> reaction[1],
                                        resolvedBy |-> reaction[2]])
                /\ out'[3] = respond("exec.approval.resolve", TRUE, [ok |-> TRUE])
                /\ calls'[Len(calls')].reaction = reaction]_vars
    /\ [](\A c \in 1..Len(calls) :
            calls[c].reaction # <<>> =>
                LET w == calls[c].wait
                IN /\ waits[w].timer = "cleared"
                   /\ waits[w].resumes = <<(<<"resolve", calls[c].reaction[1]>>)>>
                   /\ Len(calls[c].responses) <= 1
                   /\ calls[c].state = "done" <=> Len(calls[c].responses) = 1
                   /\ \A i \in 1..Len(calls[c].responses) :
                         calls[c].responses[i] =
                             respond("exec.approval.request", TRUE,
                                     [id |-> waits[w].id, decision |-> calls[c].reaction[1]]))
    /\ (\E c \in 1..Len(calls) : calls[c].reaction # <<>> /\ calls[c].responses = <<>>)
          ~> (\A c \in 1..Len(calls) : calls[c].reaction # <<>> => Len(calls[c].responses) = 1)

\* such a request has completed and the clock has passed its timer's due time
C2_Witness ==
    \E c \in 1..Len(calls) :
        /\ calls[c].reaction # <<>>
        /\ calls[c].state = "done"
        /\ now > waits[calls[c].wait].dueAt

\* C3: an exec.approval.request whose supplied id is pending responds with
\* failure "approval id already pending" and changes nothing else: no
\* record, no broadcast, no timer, and the pending entries stay as they are.
C3_DuplicateRejected ==
    [][\A request \in Requests, id \in IdInputs, t \in Timeouts, reaction \in Reactions :
        (ret'.op = "request" /\ id # NullId /\ trim(id) \in DOMAIN pending
           /\ Request(request, id, t, reaction)) =>
            /\ UNCHANGED <<pending, records, waits, uuid, sent>>
            /\ out' = <<respond("exec.approval.request", FALSE,
                                [message |-> "approval id already pending"])>>
            /\ Len(calls') = Len(calls) + 1
            /\ SubSeq(calls', 1, Len(calls)) = calls
            /\ calls'[Len(calls')].state = "done"
            /\ calls'[Len(calls')].responses = out']_vars

\* a duplicate was refused, and afterwards the first request was resolved
\* and completed with that decision
C3_Witness ==
    /\ Len(calls) = 2
    /\ calls[1].outcome = "accepted" /\ calls[2].outcome = "duplicate"
    /\ calls[1].state = "done"
    /\ calls[1].responses[1].payload.decision = "deny"
    /\ records[waits[calls[1].wait].rec].resolvedAtMs > records[waits[calls[1].wait].rec].createdAtMs

\* C4: a request whose pending id was resolved with decision D responds with
\* success {id, decision: D}, and the "exec.approval.resolved" broadcast of
\* that id and decision was emitted before the step that responds; every
\* resolution has had its broadcast.
C4_ResolvedBroadcastBeforeResponse ==
    /\ [][\A c \in 1..Len(calls) :
            (ret'.op = "resume" /\ RequestResume(c) /\ waits[calls[c].wait].resumes[1][1] = "resolve") =>
                LET rec == records[waits[calls[c].wait].rec]
                IN /\ out' = <<respond("exec.approval.request", TRUE,
                                       [id |-> rec.id, decision |-> rec.decision])>>
                   /\ calls'[c].responses = out'
                   /\ Count(sent, broadcast("exec.approval.resolved",
                                 [id |-> rec.id, decision |-> rec.decision,
                                  resolvedBy |-> rec.resolvedBy])) >= 1]_vars
    /\ [](\A id \in KnownIds, di \in ResolveParams :
            Count(sent, broadcast("exec.approval.resolved",
                      [id |-> id, decision |-> di[1], resolvedBy |-> di[2]]))
            = Cardinality({r \in 1..Len(records) :
                             /\ records[r].id = id
                             /\ "decision" \in DOMAIN records[r]
                             /\ records[r].decision = di[1]
                             /\ records[r].resolvedBy = di[2]}))

\* a request resolved with allow-once by a separate exec.approval.resolve
\* call of the client CLI has responded, and another one resolved with deny
C4_Witness ==
    /\ \E c \in 1..Len(calls) :
          /\ calls[c].outcome = "accepted" /\ calls[c].reaction = <<>>
          /\ calls[c].state = "done"
          /\ waits[calls[c].wait].value = "allow-once"
          /\ records[waits[calls[c].wait].rec].resolvedBy = "CLI"
          /\ out = calls[c].responses
    /\ \E c \in 1..Len(calls) :
          /\ calls[c].outcome = "accepted" /\ calls[c].reaction = <<>>
          /\ waits[calls[c].wait].value = "deny"

\* C5: when the timer of a registration fires, no resolve having succeeded
\* for it, its waiter gets null and from that step the id is not pending:
\* getSnapshot returns nothing and listPending does not list it; the request
\* then responds with decision null.
C5_Expiry ==
    /\ [][\A w \in 1..Len(waits) :
            (ret'.op = "timeout" /\ TimerFires(w)) =>
                /\ waits'[w].resumes = <<(<<"expiry", Nil>>)>>
                /\ waits'[w].value = Nil
                /\ waits[w].id \notin DOMAIN pending'
                /\ getSnapshot(Manager', waits[w].id) = 0
                /\ SelectSeq(listPending(Manager', now'),
                             LAMBDA item : item.id = waits[w].id) = <<>>]_vars
    /\ [](\A c \in 1..Len(calls) :
            (calls[c].outcome = "accepted" /\ waits[calls[c].wait].timer = "fired") =>
                /\ ~Registered(calls[c].wait)
                /\ \A i \in 1..Len(calls[c].responses) :
                      calls[c].responses[i] =
                          respond("exec.approval.request", TRUE,
                                  [id |-> waits[calls[c].wait].id, decision |-> Nil]))

\* a request expired and responded while another request was still pending
C5_Witness ==
    \E c \in 1..Len(calls) :
        /\ calls[c].outcome = "accepted" /\ calls[c].state = "done"
        /\ waits[calls[c].wait].timer = "fired"
        /\ calls[c].responses[1].payload.decision = Nil
        /\ DOMAIN pending # {}

\* C6: with timers that eventually fire, every registration made by
\* waitForDecision is eventually removed from the pending set and its waiter
\* eventually resumed, whatever create, waitForDecision and resolve calls
\* are interleaved.
C6_NoRecordPendingForever ==
    \A w \in 1..MaxObjects :
        [](w <= Len(waits) => <>(w <= Len(waits) /\ waits[w].settled /\ ~Registered(w)))

\* two registrations of one id, the second replacing the entry of the
\* first: both waiters were resumed by their timers and nothing is pending
C6_Witness ==
    /\ Len(waits) = 2
    /\ waits[1].id = waits[2].id
    /\ waits[1].timer = "fired" /\ waits[2].timer = "fired"
    /\ waits[1].dueAt < waits[2].dueAt
    /\ DOMAIN pending = {}

\* C7: every request call and every resolve call responds at most once, a
\* call rejected as invalid or duplicate included; and an accepted request
\* has its response only once its pending entry has terminated: its waiter
\* was resumed and the entry is gone.  (out holds what the last handler step
\* emitted, ret which handler it was.)
C7_RespondOnceAfterTermination ==
    /\ \A c \in 1..Len(calls) :
          /\ Len(calls[c].responses) <= 1
          /\ calls[c].state = "done" <=> Len(calls[c].responses) = 1
          /\ (calls[c].outcome = "accepted" /\ calls[c].responses # <<>>) =>
                 /\ waits[calls[c].wait].settled
                 /\ ~Registered(calls[c].wait)
          /\ calls[c].outcome # "accepted" =>
                 /\ calls[c].outcome \in {"invalid", "duplicate"}
                 /\ calls[c].wait = 0
                 /\ Len(calls[c].responses) = 1 /\ ~calls[c].responses[1].ok
    /\ ret.op = "resolve" =>
          /\ Cardinality(Responded(out, "exec.approval.resolve")) = 1
          /\ Responded(out, "exec.approval.request") = {}
    /\ ret.op = "request" =>
          /\ Cardinality(Responded(out, "exec.approval.resolve"))
                = IF calls[Len(calls)].reaction = <<>> THEN 0 ELSE 1
          /\ Cardinality(Responded(out, "exec.approval.request"))
                = Len(calls[Len(calls)].responses)
          /\ Len(calls[Len(calls)].responses)
                = IF calls[Len(calls)].outcome = "accepted" THEN 0 ELSE 1
    /\ ret.op = "resume" =>
          /\ Cardinality(Responded(out, "exec.approval.request")) = 1
          /\ Len(out) = 1
          /\ \E c \in 1..Len(calls) :
                calls[c].outcome = "accepted" /\ calls[c].responses = out
    /\ ret.op \in {"timeout", "init"} => out = <<>>

\* two accepted requests have responded, one after a resolve call made on
\* its own, one after expiry, and the last call was a resolve refused as invalid
C7_Witness ==
    /\ Len(calls) = 2
    /\ \A c \in 1..2 : calls[c].outcome = "accepted" /\ calls[c].state = "done"
    /\ \E c \in 1..2 : waits[calls[c].wait].timer = "fired"
    /\ \E c \in 1..2 : waits[calls[c].wait].timer = "cleared" /\ calls[c].reaction = <<>>
    /\ ret.op = "resolve"
    /\ out = <<respond("exec.approval.resolve", FALSE,
                       [message |-> "invalid exec.approval.resolve params"])>>

\* C8: exec.approval.resolve for an id that is not pending responds with
\* failure, emits no broadcast and leaves the manager as it was.
C8_ResolveUnknownId ==
    [][(ret'.op = "resolve" /\ now' = now) =>
        \/ /\ Len(out') = 1
           /\ out'[1].kind = "respond"
           /\ out'[1].method = "exec.approval.resolve"
           /\ ~out'[1].ok
           /\ UNCHANGED <<pending, records, waits, uuid, calls, sent>>
        \/ \A id \in ResolveIds \ DOMAIN pending, di \in ResolveParams :
              ~Resolve(id, di[1], di[2])]_vars

\* the last call was a failed resolve, when nothing was pending any more:
\* one request had been ended by its timer and one by a resolve
C8_Witness ==
    /\ ret.op = "resolve" /\ ~ret.ok
    /\ Len(out) = 1 /\ ~out[1].ok
    /\ DOMAIN pending = {}
    /\ \E w \in 1..Len(waits) : waits[w].timer = "fired"
    /\ \E w \in 1..Len(waits) : waits[w].timer = "cleared"

\* C9: Store.resolve returns true exactly when the id is pending at the
\* call; returning false it changes nothing; returning true it removes the
\* entry, whose waiter had not been resumed and whose timer had not fired.
C9_ResolveReturnValue ==
    [][\A id \in KnownIds, di \in ResolveInputs :
        (ret'.op = "resolve" /\ StoreResolve(id, di[1], di[2])) =>
          /\ ret'.ok <=> id \in DOMAIN pending
          /\ ~ret'.ok => UNCHANGED <<pending, records, waits, uuid>>
          /\ ret'.ok =>
                /\ id \notin DOMAIN pending'
                /\ waits[pending[id].resolve].resumes = <<>>
                /\ waits[pending[id].timer].timer = "active"
                /\ waits'[pending[id].resolve].resumes = <<(<<"resolve", di[1]>>)>>]_vars

\* a resolve returned false for an id whose registration had been resolved
\* before, with an older registration of that id ended by its timer
C9_Witness ==
    /\ ret.op = "resolve" /\ ~ret.ok
    /\ \E w \in 1..Len(waits) : waits[w].id = ret.id /\ waits[w].timer = "cleared"
    /\ \E w \in 1..Len(waits) : waits[w].id = ret.id /\ waits[w].timer = "fired"

\* C10 as stated: Store.create for an id that is pending fails (returns no
\* record) and changes nothing.
C10_CreateFailsOnPendingId ==
    [][\A request \in Requests, t \in Timeouts, id \in IdInputs :
        (ret'.op = "create" /\ id # NullId /\ trim(id) \in DOMAIN pending
           /\ StoreCreate(request, t, id)) =>
            /\ ret'.rec = 0
            /\ UNCHANGED <<pending, records, waits, uuid>>]_vars

\* C10 amended: Store.create for an id that is pending does not fail, it
\* returns a new record with that id, and it leaves the pending set, the
\* timers, the waiters and the earlier records as they were.
C10_CreateOnPendingIdIsPure ==
    [][\A request \in Requests, t \in Timeouts, id \in IdInputs :
        (ret'.op = "create" /\ id # NullId /\ trim(id) \in DOMAIN pending
           /\ StoreCreate(request, t, id)) =>
            /\ ret'.rec = Len(records) + 1
            /\ records' = Append(records, [id |-> trim(id), request |-> request,
                                            createdAtMs |-> now, expiresAtMs |-> now + t])
            /\ UNCHANGED <<pending, waits, uuid>>]_vars

\* create has just returned a second record for an id that is pending
C10_Witness ==
    /\ ret.op = "create"
    /\ records[ret.rec].id \in DOMAIN pending
    /\ pending[records[ret.rec].id].record # ret.rec

\* C11: for every id, at every point, the "exec.approval.resolved" broadcasts
\* emitted for it are at most as many as the "exec.approval.requested"
\* broadcasts emitted for it; and inside a request step the resolved
\* broadcast of a resolve made during the delivery comes after the
\* requested broadcast of the same id.
C11_ResolvedAfterRequested ==
    /\ \A id \in KnownIds :
          BroadcastCount(sent, "exec.approval.resolved", id)
              <= BroadcastCount(sent, "exec.approval.requested", id)
    /\ \A i \in 1..Len(out) :
          (out[i].kind = "broadcast" /\ out[i].event = "exec.approval.resolved"
             /\ ret.op = "request") =>
              \E j \in 1..(i - 1) :
                  /\ out[j].kind = "broadcast"
                  /\ out[j].event = "exec.approval.requested"
                  /\ out[j].payload.id = out[i].payload.id

\* an id was requested, resolved, and after that requested again and
\* resolved from inside the delivery of the second requested broadcast
C11_Witness ==
    /\ Len(calls) = 2
    /\ calls[1].outcome = "accepted" /\ calls[2].outcome = "accepted"
    /\ calls[1].state = "done" /\ calls[1].reaction = <<>>
    /\ calls[2].reaction # <<>>
    /\ waits[calls[1].wait].id = waits[calls[2].wait].id
    /\ BroadcastCount(sent, "exec.approval.resolved", waits[calls[1].wait].id) = 2
    /\ BroadcastCount(sent, "exec.approval.requested", waits[calls[1].wait].id) = 2

\* C12: every successful exec.approval.pending response lists exactly the
\* ids of the pending set, each once; so a request that was accepted and has
\* not terminated has exactly one entry with its id in it.
C12_ListingMatchesPendingSet ==
    (ret.op = "pending" /\ out[1].ok) =>
        LET listing == out[1].payload.pending
        IN /\ {listing[i].id : i \in 1..Len(listing)} = DOMAIN pending
           /\ Len(listing) = Cardinality(DOMAIN pending)
           /\ \A c \in 1..Len(calls) :
                 (calls[c].outcome = "accepted" /\ ~waits[calls[c].wait].settled) =>
                     Cardinality({i \in 1..Len(listing) :
                                     listing[i].id = waits[calls[c].wait].id}) = 1

\* a listing made while one request was waiting and another had expired
C12_Witness ==
    /\ ret.op = "pending" /\ out[1].ok
    /\ Len(out[1].payload.pending) = 1
    /\ \E c \in 1..Len(calls) :
          calls[c].outcome = "accepted" /\ waits[calls[c].wait].timer = "fired"
    /\ \E c \in 1..Len(calls) :
          /\ calls[c].outcome = "accepted" /\ ~waits[calls[c].wait].settled
          /\ out[1].payload.pending[1].id = waits[calls[c].wait].id

\* C13: every listing reports waitingMs >= 0 and expiresInMs >= 0, and for a
\* record that stays pending the reported expiresInMs never increases: not
\* from one exec.approval.pending response to the next, and not across any
\* step of the system in the item a listing made then would hold for it.
C13_ExpiresInNeverIncreases ==
    /\ [](ret.op = "pending" /\ out[1].ok =>
            \A i \in 1..Len(out[1].payload.pending) :
                /\ out[1].payload.pending[i].waitingMs >= 0
                /\ out[1].payload.pending[i].expiresInMs >= 0)
    /\ [][(ret.op = "pending" /\ ret'.op = "pending" /\ out[1].ok /\ out'[1].ok) =>
            \A i \in 1..Len(out[1].payload.pending), j \in 1..Len(out'[1].payload.pending) :
                out[1].payload.pending[i].id = out'[1].payload.pending[j].id =>
                    out'[1].payload.pending[j].expiresInMs
                        <= out[1].payload.pending[i].expiresInMs]_vars
    /\ [][\A id \in (DOMAIN pending) \cap (DOMAIN pending') :
            pending'[id].record = pending[id].record =>
                pendingItem(records'[pending'[id].record], Max(0, now')).expiresInMs
                    <= pendingItem(records[pending[id].record], Max(0, now)).expiresInMs]_vars

\* a listing made after the record's expiry time, its timer not yet run,
\* reports expiresInMs 0 and a positive waitingMs
C13_Witness ==
    /\ ret.op = "pending" /\ out[1].ok
    /\ \E i \in 1..Len(out[1].payload.pending) :
          /\ out[1].payload.pending[i].expiresAtMs < out[1].payload.nowMs
          /\ out[1].payload.pending[i].expiresInMs = 0
          /\ out[1].payload.pending[i].waitingMs > 0

\* the listing is in ascending createdAtMs, ties in ascending id by Before
Sorted(listing, Before(_, _)) ==
    \A i, j \in 1..Len(listing) :
        i < j =>
            \/ listing[i].createdAtMs < listing[j].createdAtMs
            \/ /\ listing[i].createdAtMs = listing[j].createdAtMs
               /\ Before(listing[i].id, listing[j].id)

\* the items of the pending records taken in the opposite order of
\* registration sort to the listing
OrderIndependent ==
    LET values == MapValues(pending)
        items == [i \in 1..Len(values) |-> pendingItem(records[values[i].record], Max(0, now))]
    IN toSorted(Reverse(items)) = listPending(Manager, now)

\* two exec.approval.pending calls in a row, at the same time and with nothing
\* changed in between, respond with identical listings
RepeatedCallsAgree ==
    (/\ ret.op = "pending" /\ ret'.op = "pending"
     /\ out[1].ok /\ out'[1].ok
     /\ out[1].payload.nowMs = now /\ now' = now
     /\ UNCHANGED <<pending, records, waits>>) => out' = out

\* a sorts before b in the collation of localeCompare
CollatesBefore(a, b) == localeCompare(a, b) < 0

C15_PendingParams ==
    [][\A params \in PendingParams :
        (ret'.op = "pending" /\ Pending(params)) =>
            /\ UNCHANGED <<pending, records, waits, uuid, calls, sent>>
            /\ Len(out') = 1
            /\ out'[1].kind = "respond" /\ out'[1].method = "exec.approval.pending"
            /\ params # {} =>
                  /\ ~out'[1].ok
                  /\ out'[1].payload = [message |-> "invalid exec.approval.pending params"]
            /\ params = {} =>
                  /\ out'[1].ok
                  /\ DOMAIN out'[1].payload = {"nowMs", "pending"}
                  /\ out'[1].payload.nowMs = now
                  /\ Len(out'[1].payload.pending) = Cardinality(DOMAIN pending)
                  /\ {out'[1].payload.pending[i].id : i \in 1..Len(out'[1].payload.pending)}
                        = DOMAIN pending
                  /\ \A i \in 1..Len(out'[1].payload.pending) :
                        LET item == out'[1].payload.pending[i]
                            record == records[pending[item.id].record]
                        IN /\ item.command = record.request.command
                           /\ item.createdAtMs = record.createdAtMs
                           /\ item.expiresAtMs = record.expiresAtMs
                           /\ item.waitingMs = Max(0, now - record.createdAtMs)
                           /\ item.expiresInMs = Max(0, record.expiresAtMs - now)
                           /\ item.cwd = <<"/", "t">>
                           /\ "host" \notin DOMAIN item]_vars

\* a call with an extra key was refused while two requests were pending,
\* one of them past its expiry time
C15_Witness ==
    /\ ret.op = "pending" /\ ~out[1].ok
    /\ Cardinality(DOMAIN pending) = 2
    /\ \E id \in DOMAIN pending : records[pending[id].record].expiresAtMs < now

\* the event before a successful exec.approval.resolve response is the
\* "exec.approval.resolved" broadcast {id, decision, resolvedBy} of a record
\* that was stamped with, and whose waiter was resumed with, that decision
ResolvedBroadcastBefore(i) ==
    /\ i > 1
    /\ out[i - 1].kind = "broadcast"
    /\ out[i - 1].event = "exec.approval.resolved"
    /\ DOMAIN out[i - 1].payload = {"id", "decision", "resolvedBy"}
    /\ \E w \in 1..Len(waits) :
          LET record == records[waits[w].rec]
          IN /\ record.id = out[i - 1].payload.id
             /\ "decision" \in DOMAIN record
             /\ record.decision = out[i - 1].payload.decision
             /\ record.resolvedBy = out[i - 1].payload.resolvedBy
             /\ waits[w].value = out[i - 1].payload.decision

\* C16 as stated: a successful exec.approval.resolve call responds with
\* {id, decision, ok: true} and emits the "exec.approval.resolved"
\* broadcast {id, decision, resolvedBy}.
C16_ResolveRespondsIdDecisionOk ==
    \A i \in Responded(out, "exec.approval.resolve") :
        out[i].ok =>
            /\ ResolvedBroadcastBefore(i)
            /\ out[i].payload = [id |-> out[i - 1].payload.id,
                                 decision |-> out[i - 1].payload.decision,
                                 ok |-> TRUE]

\* C16 amended: a successful exec.approval.resolve call responds with
\* {ok: true} and emits the "exec.approval.resolved" broadcast
\* {id, decision, resolvedBy}.
C16_ResolveRespondsOk ==
    \A i \in Responded(out, "exec.approval.resolve") :
        out[i].ok =>
            /\ ResolvedBroadcastBefore(i)
            /\ out[i].payload = [ok |-> TRUE]

\* an exec.approval.resolve call of the client CLI, made on its own with
\* allow-once, has succeeded
C16_Witness ==
    /\ ret.op = "resolve" /\ ret.ok
    /\ Len(out) = 2
    /\ out[1].payload.decision = "allow-once"
    /\ out[1].payload.resolvedBy = "CLI"
    /\ out[2].ok

\* C17: a request for an id whose earlier records have all terminated is
\* accepted as a new record with a timer and a waiter of its own; an entry
\* leaves the pending set only in the step in which its own waiter is
\* resumed, by its own timer or by a resolve that found this entry; and a
\* waiter that was resumed is never touched again.
C17_IdReuse ==
    /\ [][\A request \in Requests, id \in IdInputs, t \in Timeouts, reaction \in Reactions :
            (/\ ret'.op = "request"
             /\ explicitId(id) # NullId
             /\ explicitId(id) \notin DOMAIN pending
             /\ \E w \in 1..Len(waits) : waits[w].id = explicitId(id)
             /\ calls'[Len(calls')].reaction = reaction
             /\ Request(request, id, t, reaction)) =>
                LET w == Len(waits) + 1
                    r == Len(records) + 1
                IN /\ calls'[Len(calls')].outcome = "accepted"
                   /\ calls'[Len(calls')].wait = w
                   /\ Len(waits') = w /\ Len(records') = r
                   /\ waits'[w].id = explicitId(id) /\ waits'[w].rec = r
                   /\ waits'[w].dueAt = now + t
                   /\ records'[r].createdAtMs = now
                   /\ out'[1] = broadcast("exec.approval.requested",
                                          [id |-> explicitId(id), request |-> request,
                                           createdAtMs |-> now, expiresAtMs |-> now + t])
                   /\ reaction = <<>> =>
                         /\ waits'[w].timer = "active" /\ ~waits'[w].settled
                         /\ pending'[explicitId(id)].resolve = w
                         /\ pending'[explicitId(id)].timer = w
                         /\ pending'[explicitId(id)].record = r
                         /\ DOMAIN records'[r] = {"id", "request", "createdAtMs", "expiresAtMs"}]_vars
    /\ [][\A w \in 1..Len(waits) :
            /\ (Registered(w) /\ ~Registered(w)') =>
                   /\ ~waits[w].settled /\ waits'[w].settled
                   /\ waits[w].timer = "active"
                   /\ \/ waits'[w].timer = "fired" /\ waits'[w].resumes = <<(<<"expiry", Nil>>)>>
                      \/ /\ waits'[w].timer = "cleared"
                         /\ waits'[w].resumes[1][1] = "resolve"
                         /\ Len(waits'[w].resumes) = 1
            /\ (~waits[w].settled /\ waits'[w].settled) => (Registered(w) /\ ~Registered(w)')
            /\ waits[w].settled => waits'[w] = waits[w]
            /\ (Registered(w) /\ Registered(w)') => waits'[w] = waits[w]]_vars
    /\ [](\A w1, w2 \in 1..Len(waits) :
            (w1 < w2 /\ waits[w1].id = waits[w2].id) =>
                /\ waits[w1].settled /\ Len(waits[w1].resumes) = 1
                /\ waits[w1].timer # "active"
                /\ waits[w1].rec # waits[w2].rec)

\* an id was requested again after its first record had expired, and the
\* second record was resolved and its request completed
C17_Witness ==
    /\ Len(waits) = 2
    /\ waits[1].id = waits[2].id
    /\ waits[1].timer = "fired"
    /\ waits[2].timer = "cleared"
    /\ calls[2].state = "done"
    /\ calls[1].responses[1].payload.decision = Nil
    /\ calls[2].responses[1].payload.decision \in Decisions

\* the timers set for a record that are scheduled, not cancelled, not fired
ActiveTimers(r) == {w \in 1..Len(waits) : waits[w].rec = r /\ waits[w].timer = "active"}

\* C18: after any sequence of create, waitForDecision, resolve and timer
\* firings, every pending record has exactly one active timer, and no active
\* timer exists for a record that is not in the pending set.
C18_OneActiveTimerPerPendingRecord ==
    /\ \A id \in DOMAIN pending : Cardinality(ActiveTimers(pending[id].record)) = 1
    /\ \A w \in 1..Len(waits) :
          waits[w].timer = "active" =>
              \E id \in DOMAIN pending : pending[id].record = waits[w].rec

\* C19: removal precedes resumption: in the step that resumes a waiter, by
\* resolve or by the timer, its id leaves the pending set, so from the
\* moment a waiter is resumed its entry is not in the pending set.
C19_RemovalPrecedesResumption ==
    /\ [](\A w \in 1..Len(waits) : waits[w].settled => ~Registered(w))
    /\ [][\A w \in 1..Len(waits) :
            (~waits[w].settled /\ waits'[w].settled) =>
                /\ waits[w].id \notin DOMAIN pending'
                /\ getSnapshot(Manager', waits[w].id) = 0
                /\ ret'.op \in {"resolve", "timeout"}
                /\ ret'.op = "resolve" => (ret'.ok /\ ret'.id = waits[w].id)]_vars

\* the last step was a timer resuming its waiter with null, after another
\* waiter had been resumed by a resolve
C19_Witness ==
    /\ ret.op = "timeout"
    /\ \E w \in 1..Len(waits) :
          waits[w].resumes = <<(<<"expiry", Nil>>)>> /\ waits[w].id \notin DOMAIN pending
    /\ \E w \in 1..Len(waits) :
          waits[w].resumes # <<>> /\ waits[w].resumes[1][1] = "resolve"

\* C20 as stated: for every pending record and every integer nowMs, also a
\* negative one, listPending(nowMs) reports
\* waitingMs = max(0, nowMs - createdAtMs) and
\* expiresInMs = max(0, expiresAtMs - nowMs).
C20_NumbersFromNowMs ==
    ret.op = "listPending" =>
        /\ Len(ret.items) = Cardinality(DOMAIN pending)
        /\ \A i \in 1..Len(ret.items) :
              /\ ret.items[i].waitingMs = Max(0, ret.nowMs - ret.items[i].createdAtMs)
              /\ ret.items[i].expiresInMs = Max(0, ret.items[i].expiresAtMs - ret.nowMs)

\* C20 amended: listPending(nowMs) takes a negative nowMs as 0: with
\* n = max(0, nowMs) it reports waitingMs = max(0, n - createdAtMs) and
\* expiresInMs = max(0, expiresAtMs - n) for every pending record.
C20_NumbersFromClampedNowMs ==
    ret.op = "listPending" =>
        /\ Len(ret.items) = Cardinality(DOMAIN pending)
        /\ \A i \in 1..Len(ret.items) :
              /\ ret.items[i].id \in DOMAIN pending
              /\ ret.items[i].createdAtMs = records[pending[ret.items[i].id].record].createdAtMs
              /\ ret.items[i].expiresAtMs = records[pending[ret.items[i].id].record].expiresAtMs
              /\ ret.items[i].waitingMs
                    = Max(0, Max(0, ret.nowMs) - ret.items[i].createdAtMs)
              /\ ret.items[i].expiresInMs
                    = Max(0, ret.items[i].expiresAtMs - Max(0, ret.nowMs))

\* listPending was called with a negative nowMs while a record was pending
C20_Witness ==
    /\ ret.op = "listPending"
    /\ ret.nowMs < 0
    /\ Len(ret.items) = 1
    /\ ret.items[1].expiresInMs = ret.items[1].expiresAtMs
    /\ ret.items[1].expiresAtMs > 0

\* C21: create is pure construction: it leaves the pending set and the timers
\* unchanged; the record it returns has expiresAtMs = createdAtMs + timeoutMs
\* and no decision, resolvedAtMs or resolvedBy; getSnapshot and listPending
\* show a record only once waitForDecision has registered it.
C21_CreateIsPureConstruction ==
    /\ [][\A request \in Requests, t \in Timeouts, id \in IdInputs :
            (ret'.op = "create" /\ StoreCreate(request, t, id)) =>
                LET record == records'[ret'.rec]
                IN /\ pending' = pending
                   /\ waits' = waits
                   /\ ret'.rec = Len(records) + 1
                   /\ DOMAIN record = {"id", "request", "createdAtMs", "expiresAtMs"}
                   /\ record.createdAtMs = now
                   /\ record.expiresAtMs = record.createdAtMs + t
                   /\ \A known \in KnownIds' : getSnapshot(Manager', known) # ret'.rec
                   /\ listPending(Manager', now') = listPending(Manager, now)]_vars
    /\ [](\A id \in DOMAIN pending :
            /\ getSnapshot(Manager, id) = pending[id].record
            /\ \E w \in 1..Len(waits) : waits[w].rec = pending[id].record)

\* create returned a record for an id that is pending with an earlier record
C21_Witness ==
    /\ ret.op = "create"
    /\ records[ret.rec].id \in DOMAIN pending
    /\ getSnapshot(Manager, records[ret.rec].id) # ret.rec
    /\ \A w \in 1..Len(waits) : waits[w].rec # ret.rec

\* C22: getSnapshot and listPending are read-only: they change neither the
\* pending set nor any record, timer or waiter; getSnapshot(id) returns the
\* record exactly when id is pending, and never a resolved or expired record.
C22_LookupsAreReadOnly ==
    /\ [][(ret'.op \in {"getSnapshot", "listPending"} /\ now' = now) =>
             UNCHANGED <<pending, records, waits, uuid>>]_vars
    /\ [](\A id \in KnownIds :
            /\ getSnapshot(Manager, id) # 0 <=> id \in DOMAIN pending
            /\ id \in DOMAIN pending => getSnapshot(Manager, id) = pending[id].record)
    /\ [](ret.op = "getSnapshot" =>
            /\ ret.rec = getSnapshot(Manager, ret.id)
            /\ ret.rec # 0 =>
                  /\ records[ret.rec].id = ret.id
                  /\ DOMAIN records[ret.rec] \cap {"decision", "resolvedAtMs", "resolvedBy"} = {}
                  /\ \A w \in 1..Len(waits) :
                        waits[w].rec = ret.rec => waits[w].timer = "active" /\ ~waits[w].settled)

\* C23: a record in the pending set has no decision, resolvedAtMs or
\* resolvedBy; these fields are set only by a successful resolve, in the step
\* that removes the record from the pending set, and never change afterwards.
C23_StampedOnlyByResolve ==
    /\ [](\A id \in DOMAIN pending :
            DOMAIN records[pending[id].record]
                \cap {"decision", "resolvedAtMs", "resolvedBy"} = {})
    /\ [][\A r \in 1..Len(records) :
            /\ records'[r] # records[r] =>
                  /\ ret'.op = "resolve" /\ ret'.ok
                  /\ ret'.id = records[r].id
                  /\ ret'.id \in DOMAIN pending /\ pending[ret'.id].record = r
                  /\ ret'.id \notin DOMAIN pending'
                  /\ DOMAIN records[r] \cap {"decision", "resolvedAtMs", "resolvedBy"} = {}
                  /\ records'[r].resolvedAtMs = now
                  /\ records'[r].decision \in Decisions
                  /\ \E di \in ResolveInputs :
                        records'[r] = [resolvedAtMs |-> now, decision |-> di[1],
                                       resolvedBy |-> di[2]] @@ records[r]
            /\ "decision" \in DOMAIN records[r] => records'[r] = records[r]]_vars

\* C24: one id identifies a request end to end. If the request supplies an id
\* that is non-empty after trimming, the record id, the id in the
\* "exec.approval.requested" broadcast, the key in the pending set and the id
\* in the request's response all equal that trimmed id; otherwise a generated
\* id is used for all of them, and it differs from every id currently pending.
C24_OneIdEndToEnd ==
    /\ [][\A request \in Requests, id \in IdInputs, t \in Timeouts, reaction \in Reactions :
            (ret'.op = "request" /\ Len(waits') = Len(waits) + 1
               /\ calls'[Len(calls')].reaction = reaction
               /\ Request(request, id, t, reaction)) =>
                LET w == Len(waits')
                    used == records'[waits'[w].rec].id
                    supplied == id # NullId /\ Len(trim(id)) > 0
                IN /\ calls'[Len(calls')].wait = w
                   /\ supplied => used = trim(id)
                   /\ ~supplied =>
                         /\ used \notin DOMAIN pending
                         /\ \A r \in 1..Len(records) : records[r].id # used
                         /\ \A other \in IdInputs : other # NullId => used # trim(other)
                   /\ Len(used) > 0 /\ trim(used) = used
                   /\ waits'[w].id = used
                   /\ out'[1] = broadcast("exec.approval.requested",
                                          [id |-> used, request |-> request,
                                           createdAtMs |-> now, expiresAtMs |-> now + t])
                   /\ reaction = <<>> =>
                         /\ used \in DOMAIN pending'
                         /\ pending'[used].resolve = w
                         /\ records'[pending'[used].record].id = used
                   /\ reaction # <<>> => out'[2].payload.id = used]_vars
    /\ [](\A c \in 1..Len(calls) :
            calls[c].outcome = "accepted" =>
                /\ records[waits[calls[c].wait].rec].id = waits[calls[c].wait].id
                /\ \A i \in 1..Len(calls[c].responses) :
                      calls[c].responses[i].payload.id = waits[calls[c].wait].id)
    /\ [](\A id \in DOMAIN pending :
            /\ waits[pending[id].resolve].id = id
            /\ records[pending[id].record].id = id)

\* a request with a supplied id and a request with a generated id were both
\* answered, each with its own id; the first was resolved with allow-once by
\* an exec.approval.resolve call made on its own
C24_Witness ==
    \E c, d \in 1..Len(calls) :
        /\ calls[c].state = "done" /\ calls[c].outcome = "accepted"
        /\ calls[d].state = "done" /\ calls[d].outcome = "accepted"
        /\ calls[c].reaction = <<>>
        /\ calls[c].responses[1].payload = [id |-> <<"B">>, decision |-> "allow-once"]
        /\ calls[d].responses[1].payload.id \in uuid

\* C25: an expiry timer removes only the pending entry it was registered
\* with: a timer that fires never removes the entry registered by another
\* waitForDecision call, so that an entry stays resolvable until its own
\* timer fires or it is resolved.
C25_TimerRemovesOnlyItsOwnEntry ==
    [][\A w \in 1..Len(waits) :
          (ret'.op = "timeout" /\ TimerFires(w)) =>
              \A id \in DOMAIN pending :
                  pending[id].timer # w => (id \in DOMAIN pending' /\ pending'[id] = pending[id])]_vars

\* C26: when neither repair nor yes is set, loadAndMaybeMigrateDoctorConfig
\* returns the loaded config with none of the repairs applied, unless the
\* confirm prompt was shown and accepted: then it returns the fully repaired
\* candidate.
C26_NoRepairWithoutConsent ==
    (doctor.pc = "done" /\ ~doctor.d.options.repair /\ ~doctor.d.options.yes) =>
        IF doctor.prompts = <<TRUE>>
        THEN /\ doctor.result.cfg = doctor.taken
             /\ doctor.result.cfg = doctor.d.candidate
        ELSE /\ doctor.result.cfg = BaseCfg
             /\ doctor.result.cfg \cap RepairSteps = {}

\* without the flags, two repairs were proposed and the prompt was declined
C26_Witness ==
    /\ doctor.pc = "done"
    /\ ~doctor.d.options.repair /\ ~doctor.d.options.yes
    /\ doctor.prompts = <<FALSE>>
    /\ Cardinality(doctor.taken) >= 2
    /\ doctor.result.cfg = BaseCfg

\* C27: the confirm prompt is invoked at most once, and only when neither
\* repair nor yes is set and at least one repair step reported a change;
\* shouldWriteConfig is true in the result exactly when the prompt was
\* invoked and answered yes.
C27_ConfirmOnceAndWriteOnYes ==
    doctor # Idle =>
        /\ Len(doctor.prompts) <= 1
        /\ doctor.prompts # <<>> =>
              /\ ~doctor.d.options.repair /\ ~doctor.d.options.yes
              /\ doctor.reported # {}
        /\ doctor.pc = "done" =>
              (doctor.result.shouldWriteConfig <=> doctor.prompts = <<TRUE>>)

\* the prompt was answered yes and the result says to write the config
C27_Witness ==
    /\ doctor.pc = "done"
    /\ doctor.prompts = <<TRUE>>
    /\ doctor.result.shouldWriteConfig
    /\ doctor.reported = {"strip"}

\* env substitution changes a string somewhere in the raw value
RECURSIVE AnyChanged(_, _)
AnyChanged(raw, env) ==
    IF isString(raw)
    THEN resolveConfigEnvVars(raw.str, env).ok
            /\ resolveConfigEnvVars(raw.str, env).value # raw.str
    ELSE IF isArray(raw) THEN \E i \in 1..Len(raw.items) : AnyChanged(raw.items[i], env)
    ELSE IF isRecord(raw) THEN \E k \in DOMAIN raw.fields : AnyChanged(raw.fields[k], env)
    ELSE FALSE

\* the config with the raw template at every path where the raw string is
\* changed by substitution and the config holds the substituted value, and
\* with the config's own value at every other path
RECURSIVE Restored(_, _, _)
Restored(config, raw, env) ==
    IF isString(config)
    THEN IF isString(raw) /\ AnyChanged(raw, env)
              /\ config.str = resolveConfigEnvVars(raw.str, env).value
         THEN Str(raw.str)
         ELSE config
    ELSE IF isArray(config) /\ isArray(raw)
         THEN Arr([i \in 1..Len(config.items) |->
                      IF i <= Len(raw.items)
                      THEN Restored(config.items[i], raw.items[i], env)
                      ELSE config.items[i]])
    ELSE IF isRecord(config) /\ isRecord(raw)
         THEN Obj([k \in DOMAIN config.fields |->
                      IF k \in DOMAIN raw.fields
                      THEN Restored(config.fields[k], raw.fields[k], env)
                      ELSE config.fields[k]])
    ELSE config

\* C28: restoreConfigEnvTemplates never mutates its config argument; it
\* returns that same config when the raw config has no string changed by env
\* substitution; otherwise it returns a copy in which a path holds the raw
\* template exactly when the raw string at that path is changed by
\* substitution and the config value there equals the substituted value, and
\* every other path keeps the config's value (also when that value happens
\* to be the text of the template).
C28_RestoresMatchingTemplates ==
    (restore # Idle /\ restore.pc = "done") =>
        LET params == restore.params
            result == restore.result
        IN /\ result.config = params.config
           /\ ~AnyChanged(params.rawConfig, params.env) =>
                 (result.same /\ result.returned = params.config)
           /\ AnyChanged(params.rawConfig, params.env) =>
                 /\ ~result.same
                 /\ result.returned = Restored(params.config, params.rawConfig, params.env)

\* one template was put back under "a" while the value at "b", whose raw
\* string is a template too, was kept because it is not the substituted value
C28_Witness ==
    /\ restore # Idle /\ restore.pc = "done"
    /\ restore.params.env = ("A" :> "y")
    /\ restore.params.rawConfig = Obj(("a" :> Arr(<<Str("x"), Str("${A}")>>)) @@ ("b" :> Str("${A}")))
    /\ restore.params.config = Obj(("a" :> Arr(<<Str("x"), Str("y")>>)) @@ ("b" :> Str("x")))
    /\ restore.result.returned
          = Obj(("a" :> Arr(<<Str("x"), Str("${A}")>>)) @@ ("b" :> Str("x")))
    /\ ~restore.result.same

====
